---- MODULE Spec2Model ----
(***************************************************************************)
(* A model of the DTP_API client library:                                  *)
(*   - multiprocessing_logging.py : listener_configurer, listener_process  *)
(*   - DTP_config.py              : DTPConfig (token cache, validation)    *)
(*   - dtp_apis/count_DTP_API.py  : CountAPI (count queries)               *)
(* Each component has its own specification over the shared variables:     *)
(*   Spec            the log queue, its producers and listener_process     *)
(*   SpecConfigurer  repeated listener_configurer calls in one process     *)
(*   SpecSettings    consecutive DTPConfig constructions over the cache    *)
(*   SpecCount       CountAPI calls over a loaded configuration            *)
(***************************************************************************)
EXTENDS Integers, Sequences, FiniteSets, TLC

VARIABLES
    queue,       \* the shared multiprocessing queue (FIFO of items)
    sent,        \* per producer: the kinds of the records it has enqueued
    sentinelSent,\* whether the coordinator has enqueued None
    pc,          \* position of listener_process
    handlers,    \* logging registry: logger name -> handlers (baseFilenames)
    files,       \* file system: baseFilename -> lines written
    lastExc,     \* whether sys.last_type is set in the listener process
    diag,        \* number of 'Failure in listener_process' diagnostics
    ncalls,      \* listener_configurer calls / records handled (SpecConfigurer)
    tokenFile,   \* thingin_token.txt: Absent or its content
    fileAge,     \* hours since the token file's ctime
    last,        \* the last DTPConfig construction: inputs and outcome
    dtpConfig,   \* the DTP_CONFIG of a CountAPI object: its two mappings
    call         \* the last CountAPI call: its outcome and HTTP requests

vars == <<queue, sent, sentinelSent, pc, handlers, files, lastExc, diag,
          ncalls, tokenFile, fileAge, last, dtpConfig, call>>

logVars == <<queue, sent, sentinelSent, pc, lastExc, diag>>
sinkVars == <<handlers, files>>
settingsVars == <<tokenFile, fileAge, last>>
countVars == <<dtpConfig, call>>

(***************************************************************************)
(* Bounds                                                                  *)
(***************************************************************************)
\* records one producer enqueues
MaxRecords == 2
\* listener_configurer calls, and records handled, in SpecConfigurer
MaxCalls == 3
\* length of an HTTP reply body / of a hand-written token file
MaxLen == 2

Producers == {"p1", "p2"}

(***************************************************************************)
(* os.path: paths are [abs, parts]                                         *)
(***************************************************************************)
\* the working directory of the process
Cwd == <<"work">>

\* the log_file_path arguments tried: "logs", "./logs", "/work/logs", "out"
PathChoices ==
    { [abs |-> FALSE, parts |-> <<"logs">>],
      [abs |-> FALSE, parts |-> <<".", "logs">>],
      [abs |-> TRUE,  parts |-> <<"work", "logs">>],
      [abs |-> FALSE, parts |-> <<"out">>] }

LoggerNames == {"build", "other"}

\* f'{log_name}.log'
LogFileName(log_name) ==
    CASE log_name = "build" -> "build.log"
      [] log_name = "other" -> "other.log"

\* path.join(log_file_path, f'{log_name}.log')
PathJoin(p, name) == [abs |-> p.abs, parts |-> Append(p.parts, name)]

RECURSIVE NormParts(_, _)
\* os.path.normpath on the components: "." is dropped, ".." pops
NormParts(parts, acc) ==
    IF parts = <<>> THEN acc
    ELSE IF Head(parts) = "." THEN NormParts(Tail(parts), acc)
    ELSE IF Head(parts) = ".."
         THEN NormParts(Tail(parts),
                        IF acc = <<>> THEN acc ELSE SubSeq(acc, 1, Len(acc) - 1))
    ELSE NormParts(Tail(parts), Append(acc, Head(parts)))

\* os.path.abspath, which logging.FileHandler applies to its filename
AbsPath(p) == NormParts(IF p.abs THEN p.parts ELSE Cwd \o p.parts, <<>>)

\* FileHandler(path.join(log_file_path, f'{log_name}.log')).baseFilename
BaseFilename(log_name, log_file_path) ==
    AbsPath(PathJoin(log_file_path, LogFileName(log_name)))

AllBaseFilenames ==
    { BaseFilename(n, p) : n \in LoggerNames, p \in PathChoices }

(***************************************************************************)
(* listener_configurer                                                     *)
(***************************************************************************)
\* a faulty variant: addHandler with no check of the attached handlers
AddHandlerAlways(hs, base) == Append(hs, base)

\* lines 51-53: add fh unless a handler with its baseFilename is attached
AddHandlerOnce(hs, base) ==
    IF \E i \in 1..Len(hs) : hs[i] = base THEN hs ELSE Append(hs, base)

\* listener_configurer(log_name, log_file_path): the registry afterwards.
\* FileHandler opens (creates) the file whether or not it is attached.
Configured(hdl, log_name, log_file_path) ==
    [hdl EXCEPT ![log_name] =
        AddHandlerOnce(hdl[log_name], BaseFilename(log_name, log_file_path))]

RECURSIVE EmitAll(_, _, _)
\* Logger.callHandlers: each attached handler appends one line to its file
EmitAll(fs, hs, line) ==
    IF hs = <<>> THEN fs
    ELSE EmitAll([fs EXCEPT ![Head(hs)] = Append(@, line)], Tail(hs), line)

\* logging.getLogger(record.name).handle(record)
Handled(fs, hdl, name, line) == EmitAll(fs, hdl[name], line)

(***************************************************************************)
(* The log queue, the producers and listener_process                       *)
(***************************************************************************)
\* the logger name and directory listener_process is started with
LogName == "build"
LogDir == [abs |-> FALSE, parts |-> <<"logs">>]

\* None
Sentinel == [kind |-> "None"]

\* a record named log_name, a record of another logger, and an object whose
\* handling raises (record.name or logger.handle fails)
Kinds == {"log", "other", "bad"}

RecordName(kind) == IF kind = "log" THEN LogName ELSE "other"

\* a faulty variant: a get that takes the newest item
DequeuedLifo(q) ==
    [item |-> q[Len(q)], rest |-> SubSeq(q, 1, Len(q) - 1)]

\* queue.get() on a non-empty queue (line 74)
Dequeued(q) == [item |-> Head(q), rest |-> Tail(q)]

\* traceback.print_last (line 81) raises ValueError('no last exception')
\* unless sys.last_type is set, which only an exception that reached the
\* interpreter's top level does
PrintLastRaises(has_last) == ~has_last

LogInit ==
    /\ queue = <<>>
    /\ sent = [p \in Producers |-> <<>>]
    /\ sentinelSent = FALSE
    /\ pc = "Idle"
    /\ lastExc \in BOOLEAN
    /\ diag = 0

SinkInit ==
    /\ handlers = [n \in LoggerNames |-> <<>>]
    /\ files = [b \in AllBaseFilenames |-> <<>>]

LogIdle ==
    /\ queue = <<>>
    /\ sent = [p \in Producers |-> <<>>]
    /\ sentinelSent = FALSE
    /\ pc = "Off"
    /\ lastExc = FALSE
    /\ diag = 0

\* a worker process puts a record on the queue (QueueHandler.emit)
Enqueue(p, kind) ==
    /\ Len(sent[p]) < MaxRecords
    /\ queue' = Append(queue, [kind |-> kind, prod |-> p, idx |-> Len(sent[p]) + 1])
    /\ sent' = [sent EXCEPT ![p] = Append(@, kind)]
    /\ UNCHANGED <<sentinelSent, pc, lastExc, diag, sinkVars>>

\* the coordinator puts None on the queue
SendSentinel ==
    /\ ~sentinelSent
    /\ queue' = Append(queue, Sentinel)
    /\ sentinelSent' = TRUE
    /\ UNCHANGED <<sent, pc, lastExc, diag, sinkVars>>

\* listener_process line 70: configurer(log_name, log_file_path)
ListenerStart ==
    /\ pc = "Idle"
    /\ pc' = "Running"
    /\ handlers' = Configured(handlers, LogName, LogDir)
    /\ UNCHANGED <<queue, sent, sentinelSent, lastExc, diag, files>>

\* one iteration of the loop, lines 72-81
ListenerIteration ==
    /\ pc = "Running"
    /\ queue # <<>>
    /\ LET got == Dequeued(queue)
           record == got.item
       IN /\ queue' = got.rest
          /\ IF record.kind = "None"
             THEN /\ pc' = "Draining"
                  /\ UNCHANGED <<files, diag>>
             ELSE IF record.kind = "bad"
             THEN /\ diag' = diag + 1
                  /\ pc' = IF PrintLastRaises(lastExc) THEN "Crashed" ELSE "Running"
                  /\ UNCHANGED files
             ELSE /\ files' = Handled(files, handlers, RecordName(record.kind),
                                      [prod |-> record.prod, idx |-> record.idx])
                  /\ UNCHANGED <<pc, diag>>
    /\ UNCHANGED <<sent, sentinelSent, lastExc, handlers>>

\* the break of line 76 leaves the loop and listener_process returns
ListenerReturn ==
    /\ pc = "Draining"
    /\ pc' = "Stopped"
    /\ UNCHANGED <<queue, sent, sentinelSent, lastExc, diag, sinkVars>>

LogNext ==
    \/ \E p \in Producers, kind \in Kinds :
          Enqueue(p, kind) /\ UNCHANGED <<ncalls, settingsVars, countVars>>
    \/ SendSentinel /\ UNCHANGED <<ncalls, settingsVars, countVars>>
    \/ ListenerStart /\ UNCHANGED <<ncalls, settingsVars, countVars>>
    \/ ListenerIteration /\ UNCHANGED <<ncalls, settingsVars, countVars>>
    \/ ListenerReturn /\ UNCHANGED <<ncalls, settingsVars, countVars>>

(***************************************************************************)
(* Repeated listener_configurer calls and handled records in one process   *)
(***************************************************************************)
CallsInit == ncalls = [cfg |-> 0, rec |-> 0, args |-> {}, lastRec |-> [n |-> 0]]

\* listener_configurer(log_name, log_file_path)
Configure(log_name, log_file_path) ==
    /\ ncalls.cfg < MaxCalls
    /\ handlers' = Configured(handlers, log_name, log_file_path)
    /\ ncalls' = [ncalls EXCEPT !.cfg = @ + 1,
                                !.args = @ \cup {<<log_name, log_file_path>>}]
    /\ UNCHANGED files

\* logging.getLogger(name).handle(record) for the next record of the process
HandleRecord(name) ==
    /\ ncalls.rec < MaxCalls
    /\ LET line == [prod |-> "main", idx |-> ncalls.rec + 1]
       IN /\ files' = Handled(files, handlers, name, line)
          /\ ncalls' = [ncalls EXCEPT !.rec = @ + 1,
                           !.lastRec = [n |-> ncalls.rec + 1, name |-> name,
                                        line |-> line, args |-> ncalls.args]]
    /\ UNCHANGED handlers

ConfigurerNext ==
    \/ \E n \in LoggerNames, p \in PathChoices :
          Configure(n, p) /\ UNCHANGED <<logVars, settingsVars, countVars>>
    \/ \E n \in LoggerNames :
          HandleRecord(n) /\ UNCHANGED <<logVars, settingsVars, countVars>>

(***************************************************************************)
(* DTPConfig: text, the token cache file and the construction              *)
(***************************************************************************)
\* hours after which the cached token is stale (timedelta(hours=24))
TokenMaxAge == 24

\* a token character, a blank and a line break
Chars == {"a", "sp", "nl"}
Strings == UNION { [1..n -> Chars] : n \in 0..MaxLen }
IsSpace(c) == c \in {"sp", "nl"}

RECURSIVE LStrip(_)
LStrip(s) ==
    IF s # <<>> /\ IsSpace(Head(s)) THEN LStrip(Tail(s)) ELSE s

RECURSIVE RStrip(_)
\* str.rstrip(' \t\n\r')
RStrip(s) ==
    IF s # <<>> /\ IsSpace(s[Len(s)]) THEN RStrip(SubSeq(s, 1, Len(s) - 1)) ELSE s

\* str.strip()
Strip(s) == LStrip(RStrip(s))

RECURSIVE JoinLines(_, _, _)
\* lines 83-86: readlines() splits after each line break; each line is
\* right-stripped and appended to the token
JoinLines(s, line, token) ==
    IF s = <<>> THEN token \o RStrip(line)
    ELSE IF Head(s) = "nl"
         THEN JoinLines(Tail(s), <<>>, token \o RStrip(Append(line, "nl")))
    ELSE JoinLines(Tail(s), Append(line, Head(s)), token)

\* the token __read_token_file builds from the file's text (lines 81-87)
FileToken(text) == JoinLines(text, <<>>, <<>>)

Absent == [exists |-> FALSE, text |-> <<>>]
FileWith(text) == [exists |-> TRUE, text |-> text]

\* the replies of the auth endpoint: 200 with a body, or a refusal (whose
\* body the code never reads)
Replies ==
    { [status |-> 200, text |-> t] : t \in Strings } \cup { [status |-> 401, text |-> <<>>] }

\* the configuration file: whether validators.url accepts DTP_DOMAIN and
\* KPI_DOMAIN (DTP_DOMAIN is validated first)
Configs ==
    { [domainValid |-> TRUE, kpiValid |-> TRUE],
      [domainValid |-> FALSE, kpiValid |-> TRUE],
      [domainValid |-> TRUE, kpiValid |-> FALSE] }

\* a faulty variant: a file exactly 24 hours old is stale already
CheckTokenExpiredEarly(file, age) ==
    IF file.exists THEN age >= TokenMaxAge ELSE TRUE

\* __check_token_expired (lines 95-101)
CheckTokenExpired(file, age) ==
    IF file.exists THEN age > TokenMaxAge ELSE TRUE

\* __get_dev_thingin_token (lines 59-78): one request to the auth endpoint;
\* on 200 the stripped body is written to the cache file and returned
GetDevThinginToken(file, age, reply) ==
    IF reply.status = 200
    THEN [authIssued |-> TRUE, raised |-> FALSE, token |-> Strip(reply.text),
          file |-> FileWith(Strip(reply.text)), age |-> 0]
    ELSE [authIssued |-> TRUE, raised |-> TRUE, token |-> <<>>,
          file |-> file, age |-> age]

\* __read_token_file (lines 80-93)
ReadTokenFile(file, age, reply) ==
    IF Len(FileToken(file.text)) = 0
    THEN GetDevThinginToken(file, age, reply)
    ELSE [authIssued |-> FALSE, raised |-> FALSE, token |-> FileToken(file.text),
          file |-> file, age |-> age]

\* __get_dev_token (lines 103-108)
GetDevToken(file, age, reply) ==
    IF CheckTokenExpired(file, age)
    THEN GetDevThinginToken(file, age, reply)
    ELSE ReadTokenFile(file, age, reply)

\* __init__ (lines 129-145): the token is acquired at line 134, the domains
\* are validated at lines 136-145. tok is the result of __get_dev_token.
InitOutcome(cfg, tok) ==
    LET pre == IF tok.authIssued THEN <<"auth_request">> ELSE <<>>
    IN IF tok.raised
       THEN [outcome |-> "AuthError", token |-> <<>>, authIssued |-> TRUE,
             events |-> Append(pre, "raise")]
       ELSE IF ~cfg.domainValid \/ ~cfg.kpiValid
       THEN [outcome |-> "ConfigError", token |-> tok.token,
             authIssued |-> tok.authIssued,
             events |-> Append(pre, "raise")]
       ELSE [outcome |-> "ok", token |-> tok.token, authIssued |-> tok.authIssued,
             events |-> pre]

SettingsInit ==
    /\ tokenFile \in {Absent} \cup { FileWith(t) : t \in Strings }
    /\ fileAge = 0
    /\ last = [seq |-> 0, outcome |-> "none"]

SettingsIdle ==
    /\ tokenFile = Absent
    /\ fileAge = 0
    /\ last = [seq |-> 0, outcome |-> "none"]

\* time passes: the cache file grows older (ages beyond the threshold are
\* all alike to the code, so the age saturates right above it)
Tick(d) ==
    /\ tokenFile.exists
    /\ fileAge <= TokenMaxAge
    /\ fileAge' = IF fileAge + d > TokenMaxAge THEN TokenMaxAge + 1 ELSE fileAge + d
    /\ UNCHANGED <<tokenFile, last>>

\* DTPConfig(xml_path) with the auth endpoint answering reply if asked
Load(cfg, reply) ==
    LET tok == GetDevToken(tokenFile, fileAge, reply)
        res == InitOutcome(cfg, tok)
    IN /\ tokenFile' = tok.file
       /\ fileAge' = tok.age
       /\ last' = [seq |-> 1 - last.seq, cfg |-> cfg, outcome |-> res.outcome,
                   token |-> res.token, authIssued |-> res.authIssued,
                   events |-> res.events]

SettingsNext ==
    \/ \E d \in {1, 12} : Tick(d) /\ UNCHANGED <<logVars, sinkVars, ncalls, countVars>>
    \/ \E cfg \in Configs, reply \in Replies :
          Load(cfg, reply) /\ UNCHANGED <<logVars, sinkVars, ncalls, countVars>>

(***************************************************************************)
(* CountAPI over a DTPConfig                                               *)
(***************************************************************************)
\* the ontology terms the three count methods look up
Terms == {"hasTask", "task", "intentStatusRelation", "classElement",
          "isAsDesigned", "hasGeometricDefect", "GeometricDefect"}

\* the get_ontology_uri calls of each method, in evaluation order
TermsOf(method) ==
    CASE method = "activity_count_connected_task_nodes" -> <<"hasTask", "task">>
      [] method = "asdesigned_count_connected_asbuilt_nodes" ->
            <<"intentStatusRelation", "classElement", "isAsDesigned">>
      [] method = "asbuilt_count_connected_geomdefect_nodes" ->
            <<"hasGeometricDefect", "GeometricDefect">>

\* a faulty variant: a lookup with a default (dict.get) in place of the subscript
GetApiUrlOrDefault(cfg, api_type) == [raised |-> FALSE, key |-> api_type]

\* DTPConfig.get_api_url (lines 176-180): self.api_uris[api_type] raises
\* KeyError when the operation is not mapped. A mapping is its set of keys.
GetApiUrl(cfg, api_type) ==
    [raised |-> api_type \notin cfg.api_uris, key |-> api_type]

\* DTPConfig.get_ontology_uri (lines 182-183)
GetOntologyUri(cfg, ontology_type) ==
    [raised |-> ontology_type \notin cfg.ontology_uris, key |-> ontology_type]

RECURSIVE FirstRaised(_, _)
\* the first lookup of the payload expression that raises, if any
FirstRaised(cfg, terms) ==
    IF terms = <<>> THEN [raised |-> FALSE, key |-> "none"]
    ELSE IF GetOntologyUri(cfg, Head(terms)).raised
         THEN GetOntologyUri(cfg, Head(terms))
    ELSE FirstRaised(cfg, Tail(terms))

\* what post_general_request may give back: a response whose JSON holds
\* total_items, or a failure of the request
Responses == { [ok |-> TRUE, total |-> n] : n \in {0, 1} } \cup { [ok |-> FALSE, total |-> 0] }

\* one count method: the payload is built (json.dumps of the query, with its
\* get_ontology_uri calls), then get_api_url('count_nodes') is evaluated,
\* then post_general_request is called and total_items is read
CountResult(cfg, method, resp) ==
    LET term == FirstRaised(cfg, TermsOf(method))
        url == GetApiUrl(cfg, "count_nodes")
    IN IF term.raised
       THEN [method |-> method, outcome |-> "KeyError", key |-> term.key,
             posts |-> 0, result |-> 0]
       ELSE IF url.raised
       THEN [method |-> method, outcome |-> "KeyError", key |-> url.key,
             posts |-> 0, result |-> 0]
       ELSE IF ~resp.ok
       THEN [method |-> method, outcome |-> "RequestError", key |-> "none",
             posts |-> 1, result |-> 0]
       ELSE [method |-> method, outcome |-> "ok", key |-> "none",
             posts |-> 1, result |-> resp.total]

CountInit ==
    /\ dtpConfig \in { [api_uris |-> a, ontology_uris |-> o] :
                          a \in SUBSET {"count_nodes"}, o \in SUBSET Terms }
    /\ call = [method |-> "none"]

CountIdle ==
    /\ dtpConfig = [api_uris |-> {}, ontology_uris |-> {}]
    /\ call = [method |-> "none"]

activity_count_connected_task_nodes(resp) ==
    /\ call' = CountResult(dtpConfig, "activity_count_connected_task_nodes", resp)
    /\ UNCHANGED dtpConfig

asdesigned_count_connected_asbuilt_nodes(resp) ==
    /\ call' = CountResult(dtpConfig, "asdesigned_count_connected_asbuilt_nodes", resp)
    /\ UNCHANGED dtpConfig

asbuilt_count_connected_geomdefect_nodes(resp) ==
    /\ call' = CountResult(dtpConfig, "asbuilt_count_connected_geomdefect_nodes", resp)
    /\ UNCHANGED dtpConfig

CountNext ==
    \/ \E resp \in Responses :
          /\ activity_count_connected_task_nodes(resp)
          /\ UNCHANGED <<logVars, sinkVars, ncalls, settingsVars>>
    \/ \E resp \in Responses :
          /\ asdesigned_count_connected_asbuilt_nodes(resp)
          /\ UNCHANGED <<logVars, sinkVars, ncalls, settingsVars>>
    \/ \E resp \in Responses :
          /\ asbuilt_count_connected_geomdefect_nodes(resp)
          /\ UNCHANGED <<logVars, sinkVars, ncalls, settingsVars>>

(***************************************************************************)
(* Specifications                                                          *)
(***************************************************************************)
Init == LogInit /\ SinkInit /\ CallsInit /\ SettingsIdle /\ CountIdle
Next == LogNext
Spec == Init /\ [][Next]_vars

ConfigurerInit == LogIdle /\ SinkInit /\ CallsInit /\ SettingsIdle /\ CountIdle
SpecConfigurer == ConfigurerInit /\ [][ConfigurerNext]_vars

SettingsSpecInit == LogIdle /\ SinkInit /\ CallsInit /\ SettingsInit /\ CountIdle
SpecSettings == SettingsSpecInit /\ [][SettingsNext]_vars

CountSpecInit == LogIdle /\ SinkInit /\ CallsInit /\ SettingsIdle /\ CountInit
SpecCount == CountSpecInit /\ [][CountNext]_vars

(***************************************************************************)
(* Properties of the listener (Spec)                                       *)
(***************************************************************************)
\* the file listener_process writes the records named log_name to
SinkFile == BaseFilename(LogName, LogDir)
Sink == files[SinkFile]
Terminated == pc \in {"Stopped", "Crashed"}
InQueue(item) == \E i \in 1..Len(queue) : queue[i] = item
SentinelDequeued == sentinelSent /\ ~InQueue(Sentinel)

\* C1: two records of one producer reach the file sink in the order the
\* producer enqueued them, whatever the other producers interleave: in the
\* sink the indices of one producer increase, and a record named log_name is
\* there only after every earlier record named log_name of its producer.
C1_ProducerOrder ==
    /\ \A i, j \in 1..Len(Sink) :
          (i < j /\ Sink[i].prod = Sink[j].prod) => Sink[i].idx < Sink[j].idx
    /\ \A j \in 1..Len(Sink) : \A k \in 1..(Sink[j].idx - 1) :
          sent[Sink[j].prod][k] = "log" =>
             \E i \in 1..(j - 1) : Sink[i] = [prod |-> Sink[j].prod, idx |-> k]

\* two records of one producer in the sink, one of another between them
C1_Witness ==
    \E i, j, k \in 1..Len(Sink) :
       /\ i < j /\ j < k
       /\ Sink[i].prod = Sink[k].prod
       /\ Sink[j].prod # Sink[i].prod

\* C2: the sentinel makes the listener terminate after it has processed all
\* records enqueued before the sentinel, and none after it: a terminated
\* listener leaves no record ahead of the sentinel in the queue, and once the
\* sentinel is dequeued what is left in the queue stays there.
C2_Claim ==
    /\ Terminated =>
          ~ \E i, j \in 1..Len(queue) :
               i < j /\ queue[i].kind # "None" /\ queue[j].kind = "None"
    /\ pc \in {"Draining", "Stopped"} => SentinelDequeued

\* C3: a record whose handling raises never terminates the listener, and the
\* valid records around it are written: the listener never ends on an
\* exception, and when it stopped on the sentinel every record named log_name
\* that was taken from the queue is in the file.
C3_Claim ==
    /\ pc # "Crashed"
    /\ pc = "Stopped" =>
          \A p \in Producers : \A k \in 1..Len(sent[p]) :
             (sent[p][k] = "log" /\ ~InQueue([kind |-> "log", prod |-> p, idx |-> k]))
                => \E i \in 1..Len(Sink) : Sink[i] = [prod |-> p, idx |-> k]

\* C9: lifecycle Idle -> Running -> Draining -> Stopped: the listener ends
\* only by dequeuing the sentinel, whatever records it handles.
C9_Claim == Terminated => SentinelDequeued

(***************************************************************************)
(* Properties of listener_configurer (SpecConfigurer)                      *)
(***************************************************************************)
Count(seq, x) == Cardinality({ i \in 1..Len(seq) : seq[i] = x })

\* C4: after any number (>= 1) of calls with the same (log_name,
\* log_file_path) the logger has exactly one handler with that file's
\* baseFilename, and a record handled afterwards is exactly one line of it.
C4_OneSink ==
    /\ \A a \in ncalls.args :
          Count(handlers[a[1]], BaseFilename(a[1], a[2])) = 1
    /\ ncalls.lastRec.n > 0 =>
          \A a \in ncalls.lastRec.args :
             a[1] = ncalls.lastRec.name =>
                Count(files[BaseFilename(a[1], a[2])], ncalls.lastRec.line) = 1

\* some (log_name, log_file_path) was configured more than once, and a record
\* of that logger was handled after all the calls
C4_Witness ==
    /\ ncalls.cfg > Cardinality(ncalls.args)
    /\ ncalls.lastRec.n > 0
    /\ ncalls.lastRec.args = ncalls.args
    /\ \A a \in ncalls.args : a[1] = ncalls.lastRec.name

(***************************************************************************)
(* Properties of DTPConfig (SpecSettings)                                  *)
(***************************************************************************)
\* a step that is a DTPConfig construction
IsLoad == last'.seq # last.seq

\* C5: a construction with an invalid DTP_DOMAIN fails with the configuration
\* error and no authentication request was issued before it.
C5_Claim ==
    (last.outcome # "none" /\ ~last.cfg.domainValid) =>
       /\ last.outcome = "ConfigError"
       /\ \A i \in 1..Len(last.events) : last.events[i] # "auth_request"

\* C7: the cache file is stale after 24 hours: a construction over an absent
\* or stale file authenticates, and one over a file at most 24 hours old that
\* holds a non-empty token issues no request and takes exactly that token (a
\* file that is one token and nothing else gives its very text).
C7_TokenOnLoad ==
    [][IsLoad =>
         /\ (~tokenFile.exists \/ fileAge > TokenMaxAge) => last'.authIssued
         /\ (tokenFile.exists /\ fileAge <= TokenMaxAge
                /\ FileToken(tokenFile.text) # <<>>) =>
               /\ ~last'.authIssued
               /\ last'.outcome # "AuthError"
               /\ last'.token = FileToken(tokenFile.text)
               /\ (\A i \in 1..Len(tokenFile.text) : ~IsSpace(tokenFile.text[i]))
                     => last'.token = tokenFile.text
               /\ tokenFile' = tokenFile
               /\ fileAge' = fileAge
      ]_vars

\* a construction succeeded with no request, on a file exactly 24 hours old
C7_Witness ==
    /\ last.outcome = "ok"
    /\ ~last.authIssued
    /\ last.token # <<>>
    /\ fileAge = TokenMaxAge

\* C8: a successful construction holds a non-empty token.
C8_Claim == last.outcome = "ok" => last.token # <<>>

\* C10: after a construction whose authentication succeeded, a construction
\* within 24 hours issues no request and has the same token; a failed
\* authentication leaves the cache file as it was and the next construction
\* authenticates again.
C10_Claim ==
    [][IsLoad =>
         /\ (last.outcome \in {"ok", "ConfigError"} /\ last.authIssued
                /\ fileAge <= TokenMaxAge) =>
               (~last'.authIssued /\ last'.token = last.token)
         /\ last'.outcome = "AuthError" => tokenFile' = tokenFile
         /\ last.outcome = "AuthError" => last'.authIssued
      ]_vars

(***************************************************************************)
(* Properties of CountAPI (SpecCount)                                      *)
(***************************************************************************)
MissingTerm(method) ==
    \E i \in 1..Len(TermsOf(method)) :
       TermsOf(method)[i] \notin dtpConfig.ontology_uris

\* C6: a count call for which 'count_nodes' is not in the API mapping, or a
\* term it uses is not in the ontology mapping, fails with the mapping error
\* (KeyError naming an absent key) and issues no HTTP request.
C6_NoRequest ==
    (call.method # "none"
       /\ ("count_nodes" \notin dtpConfig.api_uris \/ MissingTerm(call.method))) =>
          /\ call.outcome = "KeyError"
          /\ call.posts = 0
          /\ call.key \notin (dtpConfig.api_uris \cup dtpConfig.ontology_uris)

\* every term is mapped, the operation is not, and the call failed
C6_Witness ==
    /\ call.method # "none"
    /\ ~MissingTerm(call.method)
    /\ "count_nodes" \notin dtpConfig.api_uris
    /\ call.outcome = "KeyError"

====
